---- MODULE Spec2Model ----
(***************************************************************************)
(* Model of the arXiv day-bounded crawler (main.py): the progress ledger,  *)
(* the day-range driver, the paginator and the artifact fetcher.           *)
(* Strings are sequences of one-character strings, dates are <<y, m, d>>.  *)
(***************************************************************************)
EXTENDS Integers, Sequences, FiniteSets, TLC

(* ---------------- bounds of the model ---------------- *)
\* number of calendar days START_DATE .. that "today" may reach
MaxDays == 2
\* number of process runs (start .. completion or kill) in one behaviour
MaxRuns == 2
\* a day's result set holds at most MaxPages full pages plus one record
MaxPages == 1
\* number of requests (search API or artifact) that fail in one behaviour
MaxFaults == 1
\* the titles considered are made of at most MaxBlocks blocks
MaxBlocks == 3
\* the directories considered hold at most MaxFiles files
MaxFiles == 3

(* ---------------- configuration (main.py 14-22) ---------------- *)
START_DATE == <<2025, 1, 1>>
RESULTS_PER_REQUEST == 100
\* the argument of both time.sleep calls
SLEEP_SECONDS == 3
\* sanitize_filename's max_len
max_len == 150

(* ---------------- sequences of characters ---------------- *)
DigitChars == <<"0", "1", "2", "3", "4", "5", "6", "7", "8", "9">>

DigitChar(n) == DigitChars[n + 1]

RECURSIVE Digits(_)
\* decimal digits of a natural number, most significant first: "%d"
Digits(n) == IF n < 10 THEN <<DigitChar(n)>>
             ELSE Digits(n \div 10) \o <<DigitChar(n % 10)>>

RECURSIVE ZeroPad(_, _)
\* left-pad a character sequence with "0" to width w: %Y, %m and %d of strftime
ZeroPad(s, w) == IF Len(s) >= w THEN s ELSE ZeroPad(<<"0">> \o s, w)

IsSpace(c) == c \in {" ", "\n", "\t", "\r"}

RECURSIVE LStrip(_)
LStrip(s) == IF s # <<>> /\ IsSpace(Head(s)) THEN LStrip(Tail(s)) ELSE s

RECURSIVE RStrip(_)
RStrip(s) == IF s # <<>> /\ IsSpace(s[Len(s)])
             THEN RStrip(SubSeq(s, 1, Len(s) - 1)) ELSE s

\* str.strip()
Strip(s) == LStrip(RStrip(s))

\* str.replace('\n', ' ')
ReplaceNewline(s) == [k \in 1..Len(s) |-> IF s[k] = "\n" THEN " " ELSE s[k]]

(* ---------------- dates ---------------- *)
IsLeap(y) == (y % 4 = 0 /\ y % 100 # 0) \/ y % 400 = 0

DaysInMonth(y, m) == IF m = 2 THEN (IF IsLeap(y) THEN 29 ELSE 28)
                     ELSE IF m \in {4, 6, 9, 11} THEN 30 ELSE 31

\* current_date += timedelta(days=1)
NextDay(dt) == IF dt[3] < DaysInMonth(dt[1], dt[2]) THEN <<dt[1], dt[2], dt[3] + 1>>
               ELSE IF dt[2] < 12 THEN <<dt[1], dt[2] + 1, 1>>
               ELSE <<dt[1] + 1, 1, 1>>

RECURSIVE AddDays(_, _)
AddDays(dt, k) == IF k = 0 THEN dt ELSE AddDays(NextDay(dt), k - 1)

\* date comparison current_date <= end_date
DateLE(a, b) == \/ a[1] < b[1]
                \/ a[1] = b[1] /\ a[2] < b[2]
                \/ a[1] = b[1] /\ a[2] = b[2] /\ a[3] <= b[3]

\* strftime('%Y-%m-%d'): the ledger's day key
DateStr(dt) == ZeroPad(Digits(dt[1]), 4) \o <<"-">> \o ZeroPad(Digits(dt[2]), 2)
               \o <<"-">> \o ZeroPad(Digits(dt[3]), 2)

\* strftime('%Y%m%d'): the filename prefix and the query's date
DateStrCompact(dt) == ZeroPad(Digits(dt[1]), 4) \o ZeroPad(Digits(dt[2]), 2)
                      \o ZeroPad(Digits(dt[3]), 2)

\* the calendar days the model covers
Days == {AddDays(START_DATE, k) : k \in 0..(MaxDays - 1)}

DaysUpTo(dt) == {d \in Days : DateLE(d, dt)}

(* ---------------- sanitize_filename (main.py 36-47) ---------------- *)
IllegalChars == {"\\", "/", "*", "?", ":", "\"", "<", ">", "|"}

\* re.sub(r'[\\/*?:"<>|]', "", title)
RemoveIllegal(s) == SelectSeq(s, LAMBDA c : c \notin IllegalChars)

RECURSIVE SplitWords(_)
\* str.split(): the maximal runs of non-whitespace characters, in order; the
\* first word of s, then the words of what follows it
SplitWords(s) ==
    LET word == {k \in 1..Len(s) : ~IsSpace(s[k])}
    IN IF word = {} THEN <<>>
       ELSE LET b == CHOOSE k \in word : \A j \in word : k <= j
                gap == {k \in b..Len(s) : IsSpace(s[k])}
                e == IF gap = {} THEN Len(s)
                     ELSE (CHOOSE k \in gap : \A j \in gap : k <= j) - 1
            IN <<SubSeq(s, b, e)>> \o SplitWords(SubSeq(s, e + 1, Len(s)))

RECURSIVE JoinWords(_)
\* " ".join(words)
JoinWords(ws) == IF ws = <<>> THEN <<>>
                 ELSE IF Len(ws) = 1 THEN ws[1]
                 ELSE ws[1] \o <<" ">> \o JoinWords(Tail(ws))

\* position of the last " " among the first k characters, 0 if none
LastSpace(s, k) == LET at == {j \in 1..k : s[j] = " "}
                   IN IF at = {} THEN 0 ELSE CHOOSE j \in at : \A i \in at : i <= j

\* s.rsplit(' ', 1)[0]
RSplitHead(s) == IF LastSpace(s, Len(s)) = 0 THEN s
                 ELSE SubSeq(s, 1, LastSpace(s, Len(s)) - 1)

sanitize_filename(title) ==
    LET cleaned == JoinWords(SplitWords(RemoveIllegal(title)))
        cut == IF Len(cleaned) > max_len
               THEN RSplitHead(SubSeq(cleaned, 1, max_len))
               ELSE cleaned
    IN Strip(cut)

\* f"{current_date.strftime('%Y%m%d')}_{sanitized_title}.pdf"
FileName(dt, title) ==
    DateStrCompact(dt) \o <<"_">> \o sanitize_filename(title) \o <<".", "p", "d", "f">>

(* ---------------- generate_readme_content (update_readme.py 8-51) ------ *)
\* code points of the characters that occur in the file names considered
Ord(c) ==
    CASE c = " " -> 32
      [] c = "-" -> 45
      [] c = "." -> 46
      [] c \in {DigitChars[k] : k \in 1..10} -> 47 + (CHOOSE k \in 1..10 : DigitChars[k] = c)
      [] c = "A" -> 65
      [] c = "B" -> 66
      [] c = "_" -> 95
      [] c = "a" -> 97
      [] c = "b" -> 98
      [] c = "d" -> 100
      [] c = "f" -> 102
      [] c = "p" -> 112
      [] c = "t" -> 116
      [] c = "x" -> 120

RECURSIVE StrLess(_, _)
\* a < b for Python strings: by code point, a proper prefix first
StrLess(a, b) ==
    IF b = <<>> THEN FALSE
    ELSE IF a = <<>> THEN TRUE
    ELSE IF Head(a) # Head(b) THEN Ord(Head(a)) < Ord(Head(b))
    ELSE StrLess(Tail(a), Tail(b))

RECURSIVE SortedReverse(_)
\* line 24: sorted(names, reverse=True)
SortedReverse(names) ==
    IF names = {} THEN <<>>
    ELSE LET top == CHOOSE f \in names : \A g \in names \ {f} : StrLess(g, f)
         IN <<top>> \o SortedReverse(names \ {top})

PdfExt == <<".", "p", "d", "f">>

\* line 24: f.endswith('.pdf')
EndsWithPdf(f) == Len(f) >= Len(PdfExt) /\ SubSeq(f, Len(f) - Len(PdfExt) + 1, Len(f)) = PdfExt

\* position of the first c in s, 0 if none
FirstIndex(s, c) == LET at == {j \in 1..Len(s) : s[j] = c}
                    IN IF at = {} THEN 0 ELSE CHOOSE j \in at : \A i \in at : j <= i

\* position of the last c in s, 0 if none
LastIndex(s, c) == LET at == {j \in 1..Len(s) : s[j] = c}
                   IN IF at = {} THEN 0 ELSE CHOOSE j \in at : \A i \in at : i <= j

\* line 30: filename.split('_', 1)
SplitFirst(s) ==
    LET u == FirstIndex(s, "_")
    IN IF u = 0 THEN <<s>> ELSE <<SubSeq(s, 1, u - 1), SubSeq(s, u + 1, Len(s))>>

\* the character of s at position k, "" past its end
At(s, k) == IF k <= Len(s) THEN s[k] ELSE ""

IsDigit(c) == \E k \in 1..10 : DigitChars[k] = c

DigitVal(c) == (CHOOSE k \in 1..10 : DigitChars[k] = c) - 1

\* the alternatives of the %m pattern 1[0-2]|0[1-9]|[1-9] that match at
\* position k, in the order the regular expression tries them
MonthAlts(s, k) ==
    SelectSeq(<<[ok |-> At(s, k) = "1" /\ At(s, k + 1) \in {"0", "1", "2"}, len |-> 2],
                [ok |-> At(s, k) = "0" /\ IsDigit(At(s, k + 1)) /\ At(s, k + 1) # "0", len |-> 2],
                [ok |-> IsDigit(At(s, k)) /\ At(s, k) # "0", len |-> 1]>>,
              LAMBDA a : a.ok)

\* the alternatives of the %d pattern 3[01]|[12]\d|0[1-9]|[1-9]| [1-9]
DayAlts(s, k) ==
    SelectSeq(<<[ok |-> At(s, k) = "3" /\ At(s, k + 1) \in {"0", "1"}, len |-> 2],
                [ok |-> At(s, k) \in {"1", "2"} /\ IsDigit(At(s, k + 1)), len |-> 2],
                [ok |-> At(s, k) = "0" /\ IsDigit(At(s, k + 1)) /\ At(s, k + 1) # "0", len |-> 2],
                [ok |-> IsDigit(At(s, k)) /\ At(s, k) # "0", len |-> 1],
                [ok |-> At(s, k) = " " /\ IsDigit(At(s, k + 1)) /\ At(s, k + 1) # "0", len |-> 2]>>,
              LAMBDA a : a.ok)

RECURSIVE IntOf(_)
\* int() of a run of digits with leading blanks
IntOf(s) == IF s = <<>> THEN 0
            ELSE IF s[Len(s)] = " " THEN IntOf(SubSeq(s, 1, Len(s) - 1))
            ELSE 10 * IntOf(SubSeq(s, 1, Len(s) - 1)) + DigitVal(s[Len(s)])

\* line 35: datetime.strptime(date_str, '%Y%m%d'), <<>> for a ValueError.
\* The format compiles to (\d\d\d\d)(1[0-2]|0[1-9]|[1-9])(3[01]|...| [1-9]);
\* re.match takes the first way the three groups match from the start, the
\* whole string must be consumed by it, and the numbers must be a date
strptime(s) ==
    IF \E k \in 1..4 : ~IsDigit(At(s, k)) THEN <<>>
    ELSE LET ms == SelectSeq(MonthAlts(s, 5), LAMBDA a : DayAlts(s, 5 + a.len) # <<>>)
         IN IF ms = <<>> THEN <<>>
            ELSE LET ml == ms[1].len
                     dl == DayAlts(s, 5 + ml)[1].len
                     y == IntOf(SubSeq(s, 1, 4))
                     m == IntOf(SubSeq(s, 5, 4 + ml))
                     d == IntOf(SubSeq(s, 5 + ml, 4 + ml + dl))
                 IN IF 4 + ml + dl = Len(s) /\ y >= 1 /\ d <= DaysInMonth(y, m)
                    THEN <<y, m, d>> ELSE <<>>

\* line 39: os.path.splitext(p)[0]: the part before the last dot, unless
\* only dots precede that dot in the last path component, then all of p
SplitExtRoot(p) ==
    LET dot == LastIndex(p, ".")
        sep == LastIndex(p, "/")
    IN IF dot > sep /\ \E k \in (sep + 1)..(dot - 1) : p[k] # "."
       THEN SubSeq(p, 1, dot - 1)
       ELSE p

\* line 42: f"- **{formatted_date}**: {title}"
Bullet(dt, t) == <<"-", " ", "*", "*">> \o DateStr(dt) \o <<"*", "*", ":", " ">> \o t

\* line 49
NoPapers == <<"N", "o", " ", "p", "a", "p", "e", "r", "s", " ", "f", "o", "u", "n", "d", " ", "i", "n", " ", "t", "h", "e", " ", "'", "p", "a", "p", "e", "r", "'", " ", "d", "i", "r", "e", "c", "t", "o", "r", "y", ".">>

\* lines 28-46: the line for one file name, <<>> when it is skipped as
\* malformed (IndexError from parts[1], ValueError from strptime)
PaperLine(name) ==
    LET parts == SplitFirst(name)
    IN IF Len(parts) < 2 THEN <<>>
       ELSE IF strptime(parts[1]) = <<>> THEN <<>>
       ELSE Bullet(strptime(parts[1]), SplitExtRoot(parts[2]))

\* lines 17-51: the lines that follow the header, for a directory holding
\* the file names dir
generate_readme_content(dir) ==
    LET filenames == SortedReverse({f \in dir : EndsWithPdf(f)})
        papers == SelectSeq([k \in 1..Len(filenames) |-> PaperLine(filenames[k])],
                            LAMBDA l : l # <<>>)
    IN IF papers = <<>> THEN <<NoPapers>> ELSE papers

(* ---------------- the remote corpus ---------------- *)
\* sizes a day's server-side result set may have: empty, one short page,
\* exactly k full pages, k full pages and one record (k = 1..MaxPages)
DaySizes == <<0, 2>> \o [j \in 1..(2 * MaxPages) |->
                           ((j + 1) \div 2) * RESULTS_PER_REQUEST + ((j + 1) % 2)]

\* the corpora considered: successive days hold successive sizes of DaySizes,
\* cyclically, starting anywhere in it
Corpora == {[d \in Days |-> DaySizes[((Cardinality(DaysUpTo(d)) - 1 + shift) % Len(DaySizes)) + 1]] :
               shift \in 0..(Len(DaySizes) - 1)}

\* the feed entry carries a link element titled "pdf": the first and the last
\* record of every page do, the others do not
HasPdfLink(i) == (i % RESULTS_PER_REQUEST) \in {0, 1}

\* text of the entry's title element: records of the first page are
\* " t <k>", records of later pages "t:\n <k>\n" with k counted within the page
TitleText(i) ==
    IF i <= RESULTS_PER_REQUEST THEN <<" ", "t", " ">> \o Digits(i)
    ELSE <<"t", ":", "\n", " ">> \o Digits(((i - 1) % RESULTS_PER_REQUEST) + 1) \o <<"\n">>

\* entry.find(title).text.strip().replace('\n', ' ')
Title(i) == ReplaceNewline(Strip(TitleText(i)))

Min(a, b) == IF a < b THEN a ELSE b

\* the entries of the page at offset start of a result set of n records,
\* as record numbers 1..n in submittedDate order
FetchPage(n, start, max_results) ==
    IF start >= n THEN <<>>
    ELSE [k \in 1..(Min(start + max_results, n) - start) |-> start + k]

(* ---------------- state ---------------- *)
VARIABLES
    \* environment and durable storage
    corpus,        \* day -> number of records the search API holds for it
    today,         \* date.today()
    ledger,        \* completed_dates.txt: the lines written so far
    files,         \* papers/: filename -> [day, rec, full]
    runs,          \* number of process starts so far
    faults,        \* number of failed requests so far
    \* the process (main and search_and_download_for_day)
    pc,
    completed_dates,
    current_date,
    end_date,
    total_downloaded_all_time,
    start_index,
    total_downloaded_today,
    entries,
    idx,           \* position of the for loop in entries
    \* observations of the current run
    reqLog,        \* search-API requests: <<day, start, seconds slept before>>
    getLog,        \* artifact GETs: <<day, rec, succeeded>>
    slept,         \* seconds slept since the last search-API request
    ended,         \* day -> how its pagination ended in this run
    marked,        \* day keys appended to the ledger in this run
    newFiles,      \* filenames created in this run
    outcomes,      \* per-record outcomes of the current day call
    inOrder,       \* records of the current day call came as 1, 2, 3, ...
    \* observations across runs
    everMarked,    \* every day key handed to mark_date_as_completed so far
    \* the filename and index functions on their own
    paperTitle,    \* a title as the fetcher reads it from a feed entry
    nameDay,       \* the day the fetcher names the file for
    sanitized,     \* sanitize_filename(title)
    pdfName,       \* the derived file name
    readme,        \* the body lines of the generated index
    tpc,
    prev           \* how the latest run before the current one, or the run
                   \* just killed, ended: how, whether a request failed in it,
                   \* the day it was killed in, the files it left

env == <<corpus, today>>
meter == <<runs, faults>>
store == <<ledger, files>>
mainLocals == <<completed_dates, current_date, end_date, total_downloaded_all_time>>
dayLocals == <<start_index, total_downloaded_today, entries, idx>>
runObs == <<reqLog, getLog, slept, ended, marked, newFiles>>
dayObs == <<outcomes, inOrder>>
textVars == <<paperTitle, nameDay, sanitized, pdfName, readme, tpc>>
vars == <<corpus, today, ledger, files, runs, faults, pc, completed_dates, current_date,
          end_date, total_downloaded_all_time, start_index, total_downloaded_today,
          entries, idx, reqLog, getLog, slept, ended, marked, newFiles, outcomes,
          inOrder, prev, everMarked, paperTitle, nameDay, sanitized, pdfName, readme, tpc>>

NoOutcomes == [nolink |-> 0, downloaded |-> 0, failed |-> 0, exists |-> 0]

NoPrev == [how |-> "none", failed |-> FALSE, day |-> <<>>, files |-> {}]

\* line.strip() left out: the keys keep their line ends
load_completed_dates_NoStrip(log) == {log[k] : k \in 1..Len(log)}

\* load_completed_dates: the stripped lines of the log, empty if it is missing
load_completed_dates(log) == {Strip(log[k]) : k \in 1..Len(log)}

\* the log opened with 'w' instead of 'a': the line replaces the log
mark_date_truncating(log, day_str) == <<day_str \o <<"\n">>>>

\* mark_date_as_completed: append day_str + '\n'
mark_date_as_completed(log, day_str) == Append(log, day_str \o <<"\n">>)

LedgerKeys == load_completed_dates(ledger)

\* the membership test inverted
AlreadyProcessed_Inverted(date_str, completed) == date_str \notin completed

\* line 153: date_str in completed_dates
AlreadyProcessed(date_str, completed) == date_str \in completed

\* the existence test looking in the wrong directory: never true
FileExists_WrongDir(dir, filename) == FALSE

\* line 103: os.path.exists(filepath)
FileExists(dir, filename) == filename \in DOMAIN dir

\* the last-page test off by one
IsLastPage_OffByOne(page) == Len(page) <= RESULTS_PER_REQUEST

\* line 118: len(entries) < RESULTS_PER_REQUEST
IsLastPage(page) == Len(page) < RESULTS_PER_REQUEST

\* the filename and index functions are not being exercised
TextIdle ==
    /\ paperTitle = <<>>
    /\ nameDay = START_DATE
    /\ sanitized = <<>>
    /\ pdfName = <<>>
    /\ readme = <<>>
    /\ tpc = "off"

Init ==
    /\ today \in Days
    \* days after today are never asked for
    /\ corpus \in {[d \in Days |-> IF DateLE(d, today) THEN c[d] ELSE 0] : c \in Corpora}
    /\ ledger = <<>>
    /\ files = <<>>
    /\ runs = 0
    /\ faults = 0
    /\ pc = "idle"
    /\ completed_dates = {}
    /\ current_date = START_DATE
    /\ end_date = START_DATE
    /\ total_downloaded_all_time = 0
    /\ start_index = 0
    /\ total_downloaded_today = 0
    /\ entries = <<>>
    /\ idx = 1
    /\ reqLog = <<>>
    /\ getLog = {}
    /\ slept = 0
    /\ ended = <<>>
    /\ marked = <<>>
    /\ newFiles = {}
    /\ outcomes = NoOutcomes
    /\ inOrder = TRUE
    /\ prev = NoPrev
    /\ everMarked = {}
    /\ TextIdle

Running == pc \notin {"idle", "done", "killed"}

\* some request of the current run failed
RunFailed == \/ \E d \in DOMAIN ended : ended[d] = "error"
             \/ \E g \in getLog : ~g[3]

(* ---------------- main (main.py 133-171) ---------------- *)
\* the loop test written with < : the last day is left out
InRange_Exclusive(cur, last) == DateLE(cur, last) /\ cur # last

\* line 150: while current_date <= end_date
InRange(cur, last) == DateLE(cur, last)

\* a process start: lines 135-148, the ledger is loaded and today is read once
Start ==
    /\ pc \in {"idle", "done", "killed"}
    /\ runs < MaxRuns
    /\ runs' = runs + 1
    /\ UNCHANGED faults
    /\ completed_dates' = load_completed_dates(ledger)
    /\ current_date' = START_DATE
    /\ end_date' = today
    /\ total_downloaded_all_time' = 0
    /\ start_index' = 0
    /\ total_downloaded_today' = 0
    /\ entries' = <<>>
    /\ idx' = 1
    /\ reqLog' = <<>>
    /\ getLog' = {}
    /\ slept' = 0
    /\ ended' = <<>>
    /\ marked' = <<>>
    /\ newFiles' = {}
    /\ outcomes' = NoOutcomes
    /\ inOrder' = TRUE
    /\ pc' = "while"
    /\ prev' = IF pc = "done"
               THEN [how |-> "done", failed |-> RunFailed, day |-> <<>>,
                     files |-> DOMAIN files]
               ELSE prev
    /\ UNCHANGED <<env, store, everMarked, textVars>>

\* lines 150-156: the day is in the loaded set, advance without any request
SkipDay ==
    /\ pc = "while"
    /\ InRange(current_date, end_date)
    /\ AlreadyProcessed(DateStr(current_date), completed_dates)
    /\ current_date' = NextDay(current_date)
    /\ UNCHANGED <<env, store, meter, pc, completed_dates, end_date,
                   total_downloaded_all_time, dayLocals, runObs, dayObs, prev, everMarked, textVars>>

\* the day marked when its processing starts instead of after it
CallDay_MarksFirst ==
    /\ pc = "while"
    /\ InRange(current_date, end_date)
    /\ ~AlreadyProcessed(DateStr(current_date), completed_dates)
    /\ ledger' = mark_date_as_completed(ledger, DateStr(current_date))
    /\ everMarked' = everMarked \cup {DateStr(current_date)}
    /\ start_index' = 0
    /\ total_downloaded_today' = 0
    /\ entries' = <<>>
    /\ idx' = 1
    /\ outcomes' = NoOutcomes
    /\ inOrder' = TRUE
    /\ pc' = "request"
    /\ UNCHANGED <<env, files, meter, mainLocals, runObs, prev, textVars>>

\* lines 150-160 and 51-63: the day is not in the loaded set, enter
\* search_and_download_for_day
CallDay ==
    /\ pc = "while"
    /\ InRange(current_date, end_date)
    /\ ~AlreadyProcessed(DateStr(current_date), completed_dates)
    /\ start_index' = 0
    /\ total_downloaded_today' = 0
    /\ entries' = <<>>
    /\ idx' = 1
    /\ outcomes' = NoOutcomes
    /\ inOrder' = TRUE
    /\ pc' = "request"
    /\ UNCHANGED <<env, store, meter, mainLocals, runObs, prev, everMarked, textVars>>

\* lines 162-167: the call returned; mark the day, add up, advance, sleep
MarkDay ==
    /\ pc = "return"
    /\ ledger' = mark_date_as_completed(ledger, DateStr(current_date))
    /\ marked' = Append(marked, DateStr(current_date))
    /\ everMarked' = everMarked \cup {DateStr(current_date)}
    /\ total_downloaded_all_time' = total_downloaded_all_time + total_downloaded_today
    /\ current_date' = NextDay(current_date)
    /\ slept' = slept + SLEEP_SECONDS
    /\ pc' = "while"
    /\ UNCHANGED <<env, files, meter, completed_dates, end_date, dayLocals,
                   reqLog, getLog, ended, newFiles, dayObs, prev, textVars>>

\* lines 150 and 169-171: current_date > end_date, the run completes
Finish ==
    /\ pc = "while"
    /\ ~InRange(current_date, end_date)
    /\ pc' = "done"
    /\ UNCHANGED <<env, store, meter, mainLocals, dayLocals, runObs, dayObs, prev, everMarked, textVars>>

(* ---------------- search_and_download_for_day (main.py 49-131) ------- *)
\* how the day's pagination ended, "" while it has not
EndOf(d) == IF d \in DOMAIN ended THEN ended[d] ELSE ""

\* lines 66-85: one search-API request answered with a decodable feed
RequestOk ==
    /\ pc = "request"
    /\ reqLog' = Append(reqLog, <<current_date, start_index, slept>>)
    /\ slept' = 0
    /\ LET page == FetchPage(corpus[current_date], start_index, RESULTS_PER_REQUEST)
       IN /\ entries' = page
          /\ idx' = 1
          /\ IF page = <<>>
             THEN /\ ended' = (current_date :> "empty") @@ ended
                  /\ pc' = "return"
             ELSE /\ pc' = "for"
                  /\ UNCHANGED ended
    /\ UNCHANGED <<env, store, meter, mainLocals, start_index, total_downloaded_today,
                   getLog, marked, newFiles, dayObs, prev, everMarked, textVars>>

\* lines 77-80 and 124-129: the request fails (RequestException) or the
\* response is not XML (ParseError); either handler prints and breaks
RequestError ==
    /\ pc = "request"
    /\ faults < MaxFaults
    /\ faults' = faults + 1
    /\ ended' = (current_date :> "error") @@ ended
    /\ reqLog' = Append(reqLog, <<current_date, start_index, slept>>)
    /\ slept' = 0
    /\ pc' = "return"
    /\ UNCHANGED <<env, store, runs, mainLocals, dayLocals, getLog, marked,
                   newFiles, dayObs, prev, everMarked, textVars>>

\* record number and derived file of the entry the for loop is at
CurRec == entries[idx]

CurFile == FileName(current_date, Title(CurRec))

\* the number of records the day call has been through
Processed == outcomes.nolink + outcomes.downloaded + outcomes.failed + outcomes.exists

RECURSIVE NoLinkRun(_, _)
\* the number of successive entries from position i on that have no pdf link
NoLinkRun(page, i) ==
    IF i > Len(page) \/ HasPdfLink(page[i]) THEN 0 ELSE 1 + NoLinkRun(page, i + 1)

\* break in place of continue: an entry without a link ends the loop over
\* the page, the entries after it are never looked at
EntryNoLink_Breaks ==
    /\ pc = "for"
    /\ idx <= Len(entries)
    /\ ~HasPdfLink(CurRec)
    /\ outcomes' = [outcomes EXCEPT !.nolink = @ + 1]
    /\ inOrder' = (inOrder /\ CurRec = Processed + 1)
    /\ idx' = Len(entries) + 1
    /\ UNCHANGED <<env, store, meter, pc, mainLocals, start_index,
                   total_downloaded_today, entries, runObs, prev, everMarked, textVars>>

\* lines 87-94: the entry has no pdf link, warn and continue; the iterations
\* for successive entries without a link, which change nothing but the
\* position of the loop, are taken in one step
EntryNoLink ==
    /\ pc = "for"
    /\ idx <= Len(entries)
    /\ ~HasPdfLink(CurRec)
    /\ LET n == NoLinkRun(entries, idx)
       IN /\ outcomes' = [outcomes EXCEPT !.nolink = @ + n]
          /\ inOrder' = (inOrder /\ \A k \in 0..(n - 1) :
                                        entries[idx + k] = Processed + 1 + k)
          /\ idx' = idx + n
    /\ UNCHANGED <<env, store, meter, pc, mainLocals, start_index,
                   total_downloaded_today, entries, runObs, prev, everMarked, textVars>>

\* lines 96-103 and 114-115: the derived file exists, skip without a request
EntryExists ==
    /\ pc = "for"
    /\ idx <= Len(entries)
    /\ HasPdfLink(CurRec)
    /\ FileExists(files, CurFile)
    /\ outcomes' = [outcomes EXCEPT !.exists = @ + 1]
    /\ inOrder' = (inOrder /\ CurRec = Processed + 1)
    /\ idx' = idx + 1
    /\ UNCHANGED <<env, store, meter, pc, mainLocals, start_index,
                   total_downloaded_today, entries, runObs, prev, everMarked, textVars>>

\* line 103 left out: every linked entry is downloaded and written
EntryMissing_NoGate ==
    /\ pc = "for"
    /\ idx <= Len(entries)
    /\ HasPdfLink(CurRec)
    /\ pc' = "get"
    /\ UNCHANGED <<env, store, meter, mainLocals, dayLocals, runObs, dayObs,
                   prev, everMarked, textVars>>

\* lines 96-104: the derived file does not exist, go on to download
EntryMissing ==
    /\ pc = "for"
    /\ idx <= Len(entries)
    /\ HasPdfLink(CurRec)
    /\ ~FileExists(files, CurFile)
    /\ pc' = "get"
    /\ UNCHANGED <<env, store, meter, mainLocals, dayLocals, runObs, dayObs,
                   prev, everMarked, textVars>>

\* lines 106-107: the GET of the pdf url succeeds
DownloadOk ==
    /\ pc = "get"
    /\ getLog' = getLog \cup {<<current_date, CurRec, TRUE>>}
    /\ pc' = "open"
    /\ UNCHANGED <<env, store, meter, mainLocals, dayLocals, reqLog, slept, ended,
                   marked, newFiles, dayObs, prev, everMarked, textVars>>

\* no inner handler: the failed GET reaches the handler of the search
\* request, which breaks out of the pagination
DownloadFail_Breaks ==
    /\ pc = "get"
    /\ faults < MaxFaults
    /\ faults' = faults + 1
    /\ getLog' = getLog \cup {<<current_date, CurRec, FALSE>>}
    /\ outcomes' = [outcomes EXCEPT !.failed = @ + 1]
    /\ inOrder' = (inOrder /\ CurRec = Processed + 1)
    /\ ended' = (current_date :> "error") @@ ended
    /\ pc' = "return"
    /\ UNCHANGED <<env, store, runs, mainLocals, dayLocals, reqLog, slept, marked,
                   newFiles, prev, everMarked, textVars>>

\* lines 106-107 and 112-113: the GET fails, print and go to the next entry
DownloadFail ==
    /\ pc = "get"
    /\ faults < MaxFaults
    /\ faults' = faults + 1
    /\ getLog' = getLog \cup {<<current_date, CurRec, FALSE>>}
    /\ outcomes' = [outcomes EXCEPT !.failed = @ + 1]
    /\ inOrder' = (inOrder /\ CurRec = Processed + 1)
    /\ idx' = idx + 1
    /\ pc' = "for"
    /\ UNCHANGED <<env, store, runs, mainLocals, start_index,
                   total_downloaded_today, entries, reqLog, slept, ended, marked,
                   newFiles, prev, everMarked, textVars>>

\* line 108: open(filepath, 'wb') creates the file, still without its bytes
OpenFile ==
    /\ pc = "open"
    /\ files' = (CurFile :> [day |-> current_date, rec |-> CurRec, full |-> FALSE]) @@ files
    /\ newFiles' = newFiles \cup {CurFile}
    /\ pc' = "write"
    /\ UNCHANGED <<env, ledger, meter, mainLocals, dayLocals, reqLog, getLog, slept,
                   ended, marked, dayObs, prev, everMarked, textVars>>

\* line 111 left out: the file is written but not counted
WriteFile_NoCount ==
    /\ pc = "write"
    /\ files' = [files EXCEPT ![CurFile].full = TRUE]
    /\ outcomes' = [outcomes EXCEPT !.downloaded = @ + 1]
    /\ inOrder' = (inOrder /\ CurRec = Processed + 1)
    /\ idx' = idx + 1
    /\ pc' = "for"
    /\ UNCHANGED <<env, ledger, meter, mainLocals, start_index, total_downloaded_today,
                   entries, runObs, prev, everMarked, textVars>>

\* lines 109-111: the payload is written, the file closed, the counter bumped
WriteFile ==
    /\ pc = "write"
    /\ files' = [files EXCEPT ![CurFile].full = TRUE]
    /\ total_downloaded_today' = total_downloaded_today + 1
    /\ outcomes' = [outcomes EXCEPT !.downloaded = @ + 1]
    /\ inOrder' = (inOrder /\ CurRec = Processed + 1)
    /\ idx' = idx + 1
    /\ pc' = "for"
    /\ UNCHANGED <<env, ledger, meter, mainLocals, start_index, entries, runObs,
                   prev, everMarked, textVars>>

\* lines 117-119 and 131: the page was short, the last one; return
LastPage ==
    /\ pc = "for"
    /\ idx > Len(entries)
    /\ IsLastPage(entries)
    /\ ended' = (current_date :> "short") @@ ended
    /\ pc' = "return"
    /\ UNCHANGED <<env, store, meter, mainLocals, dayLocals, reqLog, getLog, slept,
                   marked, newFiles, dayObs, prev, everMarked, textVars>>

\* the next page requested without the sleep
NextPage_NoSleep ==
    /\ pc = "for"
    /\ idx > Len(entries)
    /\ ~IsLastPage(entries)
    /\ start_index' = start_index + Len(entries)
    /\ pc' = "request"
    /\ UNCHANGED <<env, store, meter, mainLocals, total_downloaded_today, entries,
                   idx, reqLog, getLog, slept, ended, marked, newFiles, dayObs, prev, everMarked, textVars>>

\* lines 117-122: a full page, advance the offset and sleep before the next
NextPage ==
    /\ pc = "for"
    /\ idx > Len(entries)
    /\ ~IsLastPage(entries)
    /\ start_index' = start_index + Len(entries)
    /\ slept' = slept + SLEEP_SECONDS
    /\ pc' = "request"
    /\ UNCHANGED <<env, store, meter, mainLocals, total_downloaded_today, entries,
                   idx, reqLog, getLog, ended, marked, newFiles, dayObs, prev, everMarked, textVars>>

(* ---------------- a file named and indexed (main.py 98-109, update_readme.py) *)
\* a word of max_len - 1 letters
LongWord == [k \in 1..(max_len - 1) |-> "b"]

\* the pieces the titles considered are made of
Blocks == {<<"a">>, LongWord, <<" ">>, <<"\n">>, <<":">>, <<"_">>, <<".">>}

RECURSIVE TitlesOf(_)
\* the titles of at most n blocks
TitlesOf(n) == IF n = 0 THEN {<<>>}
               ELSE TitlesOf(n - 1) \cup {t \o b : t \in TitlesOf(n - 1), b \in Blocks}

\* the crawl is not running and has left nothing
CrawlIdle ==
    /\ today = START_DATE
    /\ corpus = [d \in Days |-> 0]
    /\ ledger = <<>>
    /\ runs = 0
    /\ faults = 0
    /\ pc = "idle"
    /\ completed_dates = {}
    /\ current_date = START_DATE
    /\ end_date = START_DATE
    /\ total_downloaded_all_time = 0
    /\ start_index = 0
    /\ total_downloaded_today = 0
    /\ entries = <<>>
    /\ idx = 1
    /\ reqLog = <<>>
    /\ getLog = {}
    /\ slept = 0
    /\ ended = <<>>
    /\ marked = <<>>
    /\ newFiles = {}
    /\ outcomes = NoOutcomes
    /\ inOrder = TRUE
    /\ prev = NoPrev
    /\ everMarked = {}

crawlVars == <<env, ledger, meter, pc, mainLocals, dayLocals, runObs, dayObs, prev, everMarked>>

\* a record of day nameDay with the title title is about to be named
NameInit ==
    /\ CrawlIdle
    /\ files = <<>>
    /\ paperTitle \in TitlesOf(MaxBlocks)
    /\ nameDay \in Days
    /\ sanitized = <<>>
    /\ pdfName = <<>>
    /\ readme = <<>>
    /\ tpc = "title"

\* main.py lines 99-101: the sanitized title and the file name
NameFile ==
    /\ tpc = "title"
    /\ sanitized' = sanitize_filename(paperTitle)
    /\ pdfName' = FileName(nameDay, paperTitle)
    /\ tpc' = "named"
    /\ UNCHANGED <<crawlVars, files, paperTitle, nameDay, readme>>

\* main.py lines 108-109: the file is written under that name
SaveFile ==
    /\ tpc = "named"
    /\ files' = (pdfName :> [day |-> nameDay, rec |-> 1, full |-> TRUE]) @@ files
    /\ tpc' = "saved"
    /\ UNCHANGED <<crawlVars, paperTitle, nameDay, sanitized, pdfName, readme>>

\* update_readme.py: the index is generated from the directory
UpdateReadme ==
    /\ tpc \in {"saved", "dir"}
    /\ readme' = generate_readme_content(DOMAIN files)
    /\ tpc' = "indexed"
    /\ UNCHANGED <<crawlVars, files, paperTitle, nameDay, sanitized, pdfName>>

NameNext ==
    \/ NameFile
    \/ SaveFile
    \/ UpdateReadme

NameSpec == NameInit /\ [][NameNext]_vars

\* file names a paper directory may hold: written by main.py, or put there
\* by hand
NamePool ==
    {<<"2", "0", "2", "5", "0", "1", "0", "3", "_", "B", ".", "p", "d", "f">>,
     <<"2", "0", "2", "5", "0", "1", "0", "1", "_", "A", ".", "p", "d", "f">>,
     <<"2", "0", "2", "5", "0", "2", "0", "1", "_", "b", ".", "p", "d", "f">>,
     <<"2", "0", "2", "5", "1", "3", "1", "_", "a", ".", "p", "d", "f">>,
     <<"2", "0", "2", "5", "0", "2", "3", "0", "_", "a", ".", "p", "d", "f">>,
     <<"a", ".", "p", "d", "f">>,
     <<"2", "0", "2", "5", "0", "1", "0", "1", "_", "a", ".", "t", "x", "t">>,
     <<"2", "0", "2", "5", "0", "1", "0", "1", "_", "a", "_", "b", ".", "p", "d", "f">>}

\* the paper directory is empty
ReadmeInit ==
    /\ CrawlIdle
    /\ files = <<>>
    /\ TextIdle

\* a file appears in the paper directory
PutFile ==
    /\ tpc \in {"off", "dir", "indexed"}
    /\ Cardinality(DOMAIN files) < MaxFiles
    /\ \E name \in NamePool \ DOMAIN files :
          files' = (name :> [day |-> START_DATE, rec |-> 1, full |-> TRUE]) @@ files
    /\ tpc' = "dir"
    /\ UNCHANGED <<crawlVars, paperTitle, nameDay, sanitized, pdfName, readme>>

ReadmeNext ==
    \/ PutFile
    \/ UpdateReadme

ReadmeSpec == ReadmeInit /\ [][ReadmeNext]_vars

(* ---------------- process termination from outside ---------------- *)
\* the process is killed; nothing of it but the files on disk remains
Kill ==
    /\ Running
    /\ pc' = "killed"
    /\ prev' = [how |-> "killed", failed |-> RunFailed,
                day |-> IF pc = "while" THEN <<>> ELSE current_date,
                files |-> DOMAIN files]
    /\ completed_dates' = {}
    /\ current_date' = START_DATE
    /\ end_date' = START_DATE
    /\ total_downloaded_all_time' = 0
    /\ start_index' = 0
    /\ total_downloaded_today' = 0
    /\ entries' = <<>>
    /\ idx' = 1
    /\ reqLog' = <<>>
    /\ getLog' = {}
    /\ slept' = 0
    /\ ended' = <<>>
    /\ marked' = <<>>
    /\ newFiles' = {}
    /\ outcomes' = NoOutcomes
    /\ inOrder' = TRUE
    /\ UNCHANGED <<env, store, meter, everMarked, textVars>>

Next ==
    \/ Start
    \/ SkipDay
    \/ CallDay
    \/ MarkDay
    \/ Finish
    \/ RequestOk
    \/ RequestError
    \/ EntryNoLink
    \/ EntryExists
    \/ EntryMissing
    \/ DownloadOk
    \/ DownloadFail
    \/ OpenFile
    \/ WriteFile
    \/ LastPage
    \/ NextPage
    \/ Kill

Spec == Init /\ [][Next]_vars

(* ---------------- observations used by the properties ---------------- *)
SearchErrors == {"error"}

Exhausted == {"empty", "short"}

\* the search requests of the current run that were scoped to day d
RequestsFor(d) == SelectSeq(reqLog, LAMBDA r : r[1] = d)

MarkedKeys == {marked[k] : k \in 1..Len(marked)}

\* the records of day d that carry a pdf link
LinkedRecords(d) == {i \in 1..corpus[d] : HasPdfLink(i)}

\* the ledger key of every day, and the derived file of every record that
\* carries a pdf link, tabulated
KeyOf == [d \in Days |-> DateStr(d)]

FileOf == [d \in Days |->
              [i \in {j \in 1..(DaySizes[Len(DaySizes)]) : HasPdfLink(j)} |->
                  FileName(d, Title(i))]]

(* ---------------- C1 ---------------- *)
\* C1: a day key is appended to the ledger only if the day's pagination ran
\* to exhaustion (an empty or a short page) without a search-API error; a day
\* whose pagination was ended by a request or parse error is never marked.
C1_MarkedOnlyAfterExhaustion ==
    \A k \in 1..Len(marked) :
        \E d \in DOMAIN ended : KeyOf[d] = marked[k] /\ ended[d] \in Exhausted

(* ---------------- C2 ---------------- *)
\* C2: after a search-API error no further search request is issued in the
\* run, for that day or a later one, and the day stays out of the ledger.
C2_SearchErrorAbortsRun ==
    \A d \in DOMAIN ended :
        ended[d] \in SearchErrors =>
            /\ reqLog[Len(reqLog)][1] = d
            /\ KeyOf[d] \notin LedgerKeys

(* ---------------- C3 ---------------- *)
\* C3: a day whose key was loaded from the ledger at process start gets no
\* search request, no artifact request and no second mark in the run; when
\* the run completes, every day of START_DATE..today whose key was not loaded
\* has had at least one search request scoped to it.
C3_LedgerResumption ==
    /\ \A k \in 1..Len(reqLog) : KeyOf[reqLog[k][1]] \notin completed_dates
    /\ \A g \in getLog : KeyOf[g[1]] \notin completed_dates
    /\ \A k \in 1..Len(marked) : marked[k] \notin completed_dates
    /\ pc = "done" =>
          \A d \in DaysUpTo(end_date) :
              KeyOf[d] \notin completed_dates => RequestsFor(d) # <<>>

\* a completed run that skipped a loaded day and searched another one
C3_Witness ==
    /\ pc = "done"
    /\ \E d \in DaysUpTo(end_date) : KeyOf[d] \in completed_dates
    /\ \E d \in DaysUpTo(end_date) : KeyOf[d] \notin completed_dates
    /\ reqLog # <<>>

(* ---------------- C4 ---------------- *)
\* C4: when a run completes after a completed run with the same today and the
\* same corpus, it has created no file, its total counter is 0 and the
\* ledger's set of keys is the one the first run left.
C4_SecondRunIdempotent ==
    (pc = "done" /\ prev.how = "done") =>
        /\ total_downloaded_all_time = 0
        /\ newFiles = {}
        /\ DOMAIN files = prev.files
        /\ LedgerKeys = completed_dates

\* the second of two completed runs, the first of which left files and a
\* failed request behind
C4_Witness ==
    /\ pc = "done"
    /\ prev.how = "done"
    /\ prev.failed
    /\ files # <<>>
    /\ LedgerKeys # {}

(* ---------------- C5 ---------------- *)
\* C5: after a completed run in which a request failed, a following run
\* in which every request succeeds ends with a complete local file for every
\* record of the range that carries a pdf link.
C5_RerunRecovers ==
    (pc = "done" /\ prev.how = "done" /\ prev.failed /\ ~RunFailed) =>
        \A d \in DaysUpTo(end_date) : \A i \in LinkedRecords(d) :
            /\ FileOf[d][i] \in DOMAIN files
            /\ files[FileOf[d][i]].full

(* ---------------- C6 ---------------- *)
\* the step taken is the failure of an artifact GET
GetFailsStep == pc = "get" /\ \E g \in getLog' \ getLog : ~g[3]

\* C6: when the GET of a record's pdf fails, the step creates no file and
\* leaves the downloaded counter alone and the loop goes on with the next
\* entry of the same page; and a day call that returns without a search
\* error has been through every record of the day, whether or not a
\* download failed in it.
C6_DownloadFailureNotFatal ==
    /\ [][GetFailsStep =>
            /\ files' = files
            /\ total_downloaded_today' = total_downloaded_today
            /\ pc' = "for" /\ entries' = entries /\ idx' = idx + 1
            /\ start_index' = start_index]_vars
    /\ [](pc = "return" /\ EndOf(current_date) \in Exhausted =>
            /\ Processed = corpus[current_date]
            /\ total_downloaded_today = outcomes.downloaded)

\* a day of more than one page has returned with a failed download in its
\* first page
C6_Witness ==
    /\ pc = "return"
    /\ outcomes.failed > 0
    /\ <<current_date, 1, FALSE>> \in getLog
    /\ start_index > 0
    /\ Processed = corpus[current_date]

(* ---------------- C7 ---------------- *)
\* the for loop is at a record with a pdf link whose derived file exists
AtExistingFile ==
    /\ pc = "for"
    /\ idx <= Len(entries)
    /\ HasPdfLink(CurRec)
    /\ CurFile \in DOMAIN files

\* C7: when the derived file of the record exists, the step of the loop
\* issues no artifact GET, leaves every file as it is and does not touch the
\* downloaded counter.
C7_DedupGate ==
    [][(AtExistingFile /\ pc' # "killed") =>
            /\ pc' = "for"
            /\ getLog' = getLog
            /\ files' = files
            /\ total_downloaded_today' = total_downloaded_today]_vars

\* a record was skipped because its file existed
C7_Witness == outcomes.exists > 0 /\ pc = "for"

(* ---------------- C8 ---------------- *)
\* C8: the search requests of a day come at offsets 0, 100, 200, ...; when a
\* day's pagination ends on an empty or short page, exactly floor(N/100)+1
\* requests were made for its N records, and at the return of the call each
\* of the N records has been processed exactly once, in order.
C8_PaginationTerminates ==
    /\ \A d \in Days :
           LET reqs == RequestsFor(d)
           IN /\ \A k \in 1..Len(reqs) : reqs[k][2] = (k - 1) * RESULTS_PER_REQUEST
              /\ EndOf(d) \in Exhausted =>
                     Len(reqs) = (corpus[d] \div RESULTS_PER_REQUEST) + 1
    /\ (pc = "return" /\ EndOf(current_date) \in Exhausted) =>
           (Processed = corpus[current_date] /\ inOrder)

\* a day of exactly one full page and a day of a full page and one record
\* have ended, after two requests each
C8_Witness ==
    /\ \E d \in DOMAIN ended :
           /\ ended[d] = "empty"
           /\ corpus[d] = RESULTS_PER_REQUEST
           /\ Len(RequestsFor(d)) = 2
    /\ \E d \in DOMAIN ended :
           /\ ended[d] = "short"
           /\ corpus[d] = RESULTS_PER_REQUEST + 1
           /\ Len(RequestsFor(d)) = 2

(* ---------------- C9 ---------------- *)
\* C9: every search request of a run but the first comes after a sleep of at
\* least the fixed interval since the request before it.
C9_RateLimit ==
    \A k \in 2..Len(reqLog) : reqLog[k][3] >= SLEEP_SECONDS

\* two successive requests of one day and two successive requests of
\* different days
C9_Witness ==
    /\ \E k \in 2..Len(reqLog) : reqLog[k][1] = reqLog[k - 1][1]
    /\ \E k \in 2..Len(reqLog) : reqLog[k][1] # reqLog[k - 1][1]

(* ---------------- C10 ---------------- *)
\* C10: a run killed inside day d leaves d out of the ledger; every key a run
\* appends is of a day whose call has returned in that run, and the ledger
\* holds the loaded keys and those; the run after the kill asks for d first
\* at offset 0, has asked for it when it completes, and issues no artifact
\* GET for a file the killed run left.
C10_KillAndResume ==
    /\ (pc = "killed" /\ prev.day # <<>>) => KeyOf[prev.day] \notin LedgerKeys
    /\ \A k \in 1..Len(marked) : \E d \in DOMAIN ended : KeyOf[d] = marked[k]
    /\ pc # "killed" => LedgerKeys = completed_dates \cup MarkedKeys
    /\ (Running /\ prev.how = "killed" /\ prev.day # <<>>) =>
          /\ RequestsFor(prev.day) # <<>> => RequestsFor(prev.day)[1][2] = 0
          /\ \A g \in getLog : FileOf[g[1]][g[2]] \notin prev.files
    /\ (pc = "done" /\ prev.how = "killed" /\ prev.day # <<>>) =>
          /\ RequestsFor(prev.day) # <<>>
          /\ \A g \in getLog : FileOf[g[1]][g[2]] \notin prev.files

\* the run after a kill inside a day of two pages is back in that day, past
\* its first page, and has skipped a file the killed run left
C10_Witness ==
    /\ prev.how = "killed"
    /\ prev.day = current_date
    /\ pc = "for"
    /\ start_index > 0
    /\ outcomes.exists > 0
    /\ prev.files # {}


\* the files the current run created for day d
NewFilesOf(d) == {fn \in newFiles : files[fn].day = d}

\* the GETs of the current run for day d that succeeded
GotOf(d) == {g \in getLog : g[1] = d /\ g[3]}

\* C11: when a day call that met no search-API error returns, its count is
\* the number of files the call created, which is the number of its records
\* that had a link, had no file yet and were downloaded; no file comes from
\* a record without a link; once main is back at its loop the day is in the
\* ledger and the run's total is the number of files the run created, the
\* sum of the counts of its days.
C11_DownloadAccounting ==
    /\ pc = "return" /\ EndOf(current_date) \in Exhausted
         => /\ total_downloaded_today = Cardinality(NewFilesOf(current_date))
            /\ total_downloaded_today = Cardinality(GotOf(current_date))
            /\ total_downloaded_today = outcomes.downloaded
            /\ \A g \in GotOf(current_date) : HasPdfLink(g[2])
    /\ \A fn \in newFiles : HasPdfLink(files[fn].rec)
    /\ pc \in {"while", "done"}
         => /\ \A d \in DOMAIN ended : KeyOf[d] \in LedgerKeys
            /\ total_downloaded_all_time = Cardinality(newFiles)

\* a day of two records, one with a link and new, one without a link, has
\* been processed: one file, one warning, the day marked, the total 1
C11_Witness ==
    /\ pc = "while"
    /\ marked # <<>>
    /\ outcomes.nolink = 1
    /\ outcomes.downloaded = 1
    /\ total_downloaded_all_time = 1
    /\ Cardinality(newFiles) = 1


\* the first record of the second page, whose title differs from that of
\* record 1 and derives the same file name
Later == RESULTS_PER_REQUEST + 1

\* the day call has been through record 1 and the later record of the same
\* derived file name, and the file is there, written by this run
PastCollision ==
    /\ pc \in {"for", "return"}
    /\ start_index = RESULTS_PER_REQUEST
    /\ idx > 1
    /\ FileOf[current_date][Later] = FileOf[current_date][1]
    /\ FileOf[current_date][Later] \in newFiles
    /\ files[FileOf[current_date][Later]].full

C14_LedgerAppendOnly ==
    /\ [](LedgerKeys = everMarked /\ (ledger = <<>> => LedgerKeys = {}))
    /\ [][/\ \/ ledger' = ledger
            \/ /\ Len(ledger') = Len(ledger) + 1
               /\ SubSeq(ledger', 1, Len(ledger)) = ledger
               /\ pc = "return"
          /\ LedgerKeys \subseteq load_completed_dates(ledger')
          /\ (~Running /\ pc' = "while") => completed_dates' = everMarked]_vars

\* a run started after a kill has loaded a key marked before the kill and
\* has itself appended a second line
C14_Witness ==
    /\ prev.how = "killed"
    /\ Running
    /\ Len(ledger) = 2
    /\ Cardinality(everMarked) = 2
    /\ Cardinality(completed_dates) = 1


\* the days of the range the loop of the current run is past
VisitedDays == {d \in Days : DateLE(d, end_date) /\ ~DateLE(current_date, d)}

\* the day calls the current run made for day d
CallsFor(d) == {k \in 1..Len(reqLog) : reqLog[k][1] = d /\ reqLog[k][2] = 0}

\* C15: a run reads today once, at its start, and goes through the days
\* from START_DATE on in ascending order, one day further per iteration;
\* each day it is past was either in the loaded ledger, and then was neither
\* requested nor marked, or was called once and marked once; the run is
\* complete exactly when the current day is the day after today, all days
\* of the range visited.
C15_DayRangeDriver ==
    /\ [](Running \/ pc = "done" =>
            /\ end_date = today
            /\ DateLE(START_DATE, current_date)
            /\ DateLE(current_date, NextDay(end_date))
            /\ Running /\ pc # "while" =>
                   /\ DateLE(current_date, end_date)
                   /\ KeyOf[current_date] \notin completed_dates
                   /\ Cardinality(CallsFor(current_date)) <= 1
            /\ \A d \in VisitedDays :
                   IF KeyOf[d] \in completed_dates
                   THEN KeyOf[d] \notin MarkedKeys /\ CallsFor(d) = {}
                   ELSE /\ Cardinality({k \in 1..Len(marked) : marked[k] = KeyOf[d]}) = 1
                        /\ Cardinality(CallsFor(d)) = 1
            /\ MarkedKeys \subseteq {KeyOf[d] : d \in VisitedDays}
            /\ \A i, j \in 1..Len(marked) : i < j =>
                   \E d, e \in Days : /\ KeyOf[d] = marked[i]
                                      /\ KeyOf[e] = marked[j]
                                      /\ ~DateLE(e, d)
            /\ \A i, j \in 1..Len(reqLog) : i < j => DateLE(reqLog[i][1], reqLog[j][1])
            /\ pc = "done" <=> ~Running /\ current_date = NextDay(end_date)
            /\ pc = "done" => VisitedDays = DaysUpTo(today))
    /\ [][Running /\ pc' # "killed" =>
            /\ end_date' = end_date
            /\ current_date' \in {current_date, NextDay(current_date)}
            /\ current_date' # current_date => pc = "while" \/ pc = "return"
            /\ pc' = "done" => ~DateLE(current_date, end_date)]_vars

\* a completed run over two days that skipped the first, loaded from the
\* ledger, and called and marked the second
C15_Witness ==
    /\ pc = "done"
    /\ Cardinality(VisitedDays) = 2
    /\ Cardinality(completed_dates) = 1
    /\ Len(marked) = 1
    /\ reqLog # <<>>


\* C17 as stated: once a run has completed, here one in which no request
\* failed, every file in the output directory holds the complete payload of
\* its record.
C17_CompleteAfterRun ==
    pc = "done" /\ ~RunFailed => \A fn \in DOMAIN files : files[fn].full

\* C18: every record of every decoded page of the current day call has had
\* one of the four outcomes, in feed order and one outcome each: inside the
\* loop over a page the outcomes number the records of the earlier pages
\* plus the entries the loop is past, and when the pagination is exhausted
\* they number all records of the day.
C18_NoSilentDrop ==
    /\ inOrder
    /\ pc \in {"for", "get", "open", "write"} =>
           /\ \A k \in 1..Len(entries) : entries[k] = start_index + k
           /\ Processed = start_index + idx - 1
    /\ pc = "request" => Processed = start_index
    /\ pc = "return" /\ EndOf(current_date) \in Exhausted =>
           /\ Processed = corpus[current_date]
           /\ Processed = start_index + Len(entries)
    /\ pc \in {"for", "request", "return"} =>
           /\ outcomes.downloaded = Cardinality(GotOf(current_date))
           /\ outcomes.failed = Cardinality({g \in getLog : g[1] = current_date /\ ~g[3]})

\* a day call over two pages has returned with all four outcomes among its
\* records
C18_Witness ==
    /\ pc = "return"
    /\ EndOf(current_date) = "short"
    /\ start_index = RESULTS_PER_REQUEST
    /\ outcomes.nolink > 0
    /\ outcomes.downloaded > 0
    /\ outcomes.failed > 0
    /\ outcomes.exists > 0


\* the title with the illegal characters removed and its whitespace
\* collapsed, before any truncation (main.py lines 38-40)
Cleaned(t) == JoinWords(SplitWords(RemoveIllegal(t)))

\* C12: the sanitized title has at most max_len characters, none of them
\* illegal, no two whitespace characters in a row, no whitespace at either
\* end; when the cleaned title is longer than max_len the result is made of
\* whole words of the cleaned title, its first ones.
C12_TitleTruncation ==
    tpc # "title" /\ tpc # "off" =>
        /\ Len(sanitized) <= max_len
        /\ \A k \in 1..Len(sanitized) : sanitized[k] \notin IllegalChars
        /\ \A k \in 1..(Len(sanitized) - 1) :
               ~(IsSpace(sanitized[k]) /\ IsSpace(sanitized[k + 1]))
        /\ sanitized # <<>> =>
               ~IsSpace(sanitized[1]) /\ ~IsSpace(sanitized[Len(sanitized)])
        /\ Len(Cleaned(paperTitle)) > max_len =>
               LET got == SplitWords(sanitized)
                   all == SplitWords(Cleaned(paperTitle))
               IN /\ Len(got) <= Len(all)
                  /\ \A k \in 1..Len(got) : got[k] = all[k]

\* a date prefix as the comment of update_readme.py line 29 and the
\* specification describe it: eight digits YYYYMMDD that are a calendar
\* date; <<>> when the prefix is not one
DateOfYYYYMMDD(s) ==
    IF Len(s) # 8 \/ \E k \in 1..Len(s) : ~IsDigit(s[k]) THEN <<>>
    ELSE LET y == IntOf(SubSeq(s, 1, 4))
             m == IntOf(SubSeq(s, 5, 6))
             d == IntOf(SubSeq(s, 7, 8))
         IN IF y >= 1 /\ m \in 1..12 /\ d >= 1 /\ d <= DaysInMonth(y, m)
            THEN <<y, m, d>> ELSE <<>>

\* a .pdf file name of the form <YYYYMMDD>_<rest>
WellFormedName(f) ==
    /\ EndsWithPdf(f)
    /\ Len(SplitFirst(f)) = 2
    /\ DateOfYYYYMMDD(SplitFirst(f)[1]) # <<>>

\* the YYYY-MM-DD of a bullet line
LineDate(l) == SubSeq(l, 5, 14)

\* C16: the index holds exactly one bullet line per .pdf file named
\* <YYYYMMDD>_<rest>, in descending order of the file names, the dates of
\* successive lines never increasing; the other files, without an
\* underscore or without a valid date before it, leave no line and do not
\* keep the lines of the well-formed files out.
C16_IndexGeneration ==
    tpc = "indexed" /\ paperTitle = <<>> =>
        LET good == SortedReverse({f \in DOMAIN files : WellFormedName(f)})
            lines == IF readme = <<NoPapers>> THEN <<>> ELSE readme
        IN /\ lines = [k \in 1..Len(good) |->
                          Bullet(DateOfYYYYMMDD(SplitFirst(good[k])[1]),
                                 SplitExtRoot(SplitFirst(good[k])[2]))]
           /\ \A k \in 1..(Len(lines) - 1) :
                  ~StrLess(LineDate(lines[k]), LineDate(lines[k + 1]))

\* C19: the index generated for a directory holding the one file named
\* from (nameDay, title) is the one line - **<nameDay as YYYY-MM-DD>**:
\* <sanitize_filename(title)>.
C19_RoundTrip ==
    tpc = "indexed" /\ pdfName # <<>> =>
        readme = <<Bullet(nameDay, sanitize_filename(paperTitle))>>

====
